---- MODULE Spec2Model ----
(***************************************************************************)
(* Model of src/src/github/rate_limit.py: the adaptive rate limiter        *)
(* (_AdaptiveRateLimiter) shared by the worker threads of one session, and *)
(* the retry loop of request_with_rate_limit.                              *)
(*                                                                         *)
(* Time is counted in whole seconds.  `now` is time.monotonic();           *)
(* time.time() is the same clock shifted by EpochOffset.  Float arithmetic *)
(* is modelled in fixed point with round-to-nearest (RoundDiv).  The       *)
(* environment-configured settings (GITHUB_MIN_INTERVAL, ...) are given    *)
(* whole-second values.                                                    *)
(***************************************************************************)
EXTENDS Integers, Sequences, FiniteSets, TLC

\* ---------------------------------------------------------------- bounds
MaxTime   == 5      \* the clock stops advancing here
MaxSends  == 3      \* total session.request calls made by all threads
ResetDelta == 1     \* X-RateLimit-Reset, when present, is time.time() + ResetDelta
RetryAfterSec == 1  \* Retry-After, when present and positive

Threads == {1, 2}
NoThread == 0

\* ------------------------------------------------- program configuration
DefaultDelaySec == 2     \* _DEFAULT_DELAY_SEC   (GITHUB_REQ_DELAY)
MaxAttempts     == 2     \* _DEFAULT_MAX_ATTEMPTS (GITHUB_REQ_MAX_ATTEMPTS)
BackoffBase     == 2     \* _DEFAULT_BACKOFF_BASE (GITHUB_REQ_BACKOFF_BASE)
TargetUtilPct   == 60    \* _TARGET_UTIL, in percent
SmoothingPct    == 30    \* _SMOOTHING, in percent
MinInterval     == 1     \* _MIN_INTERVAL (GITHUB_MIN_INTERVAL)
MaxInterval     == 5     \* _MAX_INTERVAL
RateLimitBuffer == 2     \* the "+ 2.0" of _compute_rate_limit_sleep
EpochOffset     == 10    \* time.time() - time.monotonic()

TransientStatuses == {429, 500, 502, 503, 504}
SecondaryStatuses == {403, 429}

\* header values: a non-negative number, or absent, or not a number
Absent == -1
Bad    == -2
None   == -1        \* Optional[float] None

\* ---------------------------------------------------------------- helpers
Max(a, b) == IF a >= b THEN a ELSE b
Min(a, b) == IF a <= b THEN a ELSE b

\* a / b rounded to the nearest integer (float rounding at 1 s resolution)
RoundDiv(a, b) == (2 * a + b) \div (2 * b)

RECURSIVE Pow(_, _)
Pow(b, e) == IF e = 0 THEN 1 ELSE b * Pow(b, e - 1)

\* ------------------------------------------------------------- variables
VARIABLES
    now,            \* time.monotonic()
    interval,       \* _AdaptiveRateLimiter.interval
    next_ts,        \* _AdaptiveRateLimiter._next_ts
    lock,           \* holder of _AdaptiveRateLimiter._lock, or NoThread
    pc,             \* position of each thread in request_with_rate_limit
    attempt,        \* local `attempt` of each thread's call
    sleep_left,     \* seconds left of the time.sleep each thread is in
    tmp,            \* local computed before taking the lock (sleep_reset / target_interval)
    resp,           \* local `resp` of each thread's call, while it is live
    sends,          \* number of session.request calls made so far
    stat,           \* history: what the sends of each thread's current call met
                    \* (hard: 403 with remaining = 0; defaulted: 403 without the header)
    slotEnd,        \* history: latest (granted start + interval) of any reservation
    quotaZeroUntil  \* history: latest reset_at, still ahead, of a response with remaining = 0

\* the state of the rate limiter and of the calls made through it
limiterVars == <<now, interval, next_ts, lock, pc, attempt, sleep_left, tmp, resp, sends,
                 stat, slotEnd, quotaZeroUntil>>

\* scripts/launch_codeql_wave.py and the scans table it polls
VARIABLES
    wave,           \* locals of run(): position, idx, launched, and the slugs of the wave
    scans           \* the scans on the portal server: how many are queued, how many running

waveVars == <<wave, scans>>

\* secret_scanner_utils.py
VARIABLES
    record,         \* the raw finding handed to normalize_*_record
    normalized,     \* what normalize_*_record gave back
    persist         \* one call of persist_secret_leaks: items, POSTs sent, reply, result

secretVars == <<record, normalized, persist>>

\* make_rate_limited_session and the sessions it has built
VARIABLES
    adaptive,         \* _ADAPTIVE_ENABLED
    limiters,         \* the _AdaptiveRateLimiter objects created so far: interval, next_ts
    session_limiter,  \* session._auditgh_rate_limiter of each session built so far
    calls             \* each thread's call of request_with_rate_limit on one of the sessions

sessionVars == <<adaptive, limiters, session_limiter, calls>>

\* src/github/graphql.py: TTLCache and GitHubGraphQLClient._post
VARIABLES
    ttl_seconds,      \* TTLCache.cfg.ttl_seconds
    files,            \* the cache directory: the payload stored at each key path, if any
    stored,           \* history: what the last TTLCache.set that wrote stored for each
                      \* (query and variables, token), and its expiry
    got,              \* the last TTLCache.get: its arguments and what it returned
    post,             \* one call of GitHubGraphQLClient._post: position, query, result
    cache_ops         \* number of TTLCache.get and TTLCache.set calls made so far

cacheVars == <<ttl_seconds, files, stored, got, post, cache_ops>>

\* everything the rate limiter does not touch
otherVars == <<waveVars, secretVars, sessionVars, cacheVars>>

vars == <<limiterVars, otherVars>>

NotStarted == "not started"

WaveIdle    == wave = NotStarted /\ scans = NotStarted
SecretsIdle == record = NotStarted /\ normalized = NotStarted /\ persist = NotStarted
SessionsIdle ==
    /\ adaptive = NotStarted /\ limiters = NotStarted
    /\ session_limiter = NotStarted /\ calls = NotStarted
CacheIdle ==
    /\ ttl_seconds = NotStarted /\ files = NotStarted
    /\ stored = NotStarted /\ got = NotStarted
    /\ post = NotStarted /\ cache_ops = NotStarted

WallClock == now + EpochOffset

NoResp == [status |-> 0, limit |-> Absent, remaining |-> Absent,
           reset |-> Absent, retry_after |-> Absent]

Statuses      == {200, 403, 429, 503}
LimitVals     == {Absent, 10}
RemainingVals == {Absent, Bad, 0, 5}

\* the rate-limit headers come as a group or not at all; Retry-After comes
\* with 403 and 429 only
WellFormed(r) ==
    /\ (r.remaining = Absent) <=> (r.limit = Absent)
    /\ (r.remaining = Absent) <=> (r.reset = Absent)
    /\ (r.retry_after # Absent) => (r.status \in SecondaryStatuses)

\* the responses the transport can produce at the current time
Responses ==
    {r \in [status: Statuses, limit: LimitVals, remaining: RemainingVals,
            reset: {Absent, WallClock + ResetDelta},
            retry_after: {Absent, RetryAfterSec}] : WellFormed(r)}

NoStat == [raises |-> 0, transients |-> 0, hard |-> 0, defaulted |-> 0,
           adjusts |-> 0, first |-> "none"]

\* ------------------------------------------------------- pure functions

\* _AdaptiveRateLimiter.__init__: the initial interval
InitialInterval == Max(Min(DefaultDelaySec, MaxInterval), MinInterval)
TargetUtil == Max(5, Min(95, TargetUtilPct))
Smoothing  == Max(5, Min(90, SmoothingPct))

\* _compute_rate_limit_sleep(resp) evaluated at wall-clock time `wall`
ComputeRateLimitSleep(r, wall) ==
    IF r.remaining = Bad THEN None
    ELSE LET remaining == IF r.remaining = Absent THEN 0 ELSE r.remaining IN
         IF r.status = 403 /\ remaining = 0
         THEN IF r.reset = Bad THEN None
              ELSE LET reset == IF r.reset = Absent THEN 0 ELSE r.reset
                   IN  Max(0, reset - wall + RateLimitBuffer)
         ELSE None

\* mutant: the except branch gives up one attempt early
TransportAttemptsExhaustedEarly(a) == a >= MaxAttempts - 1
\* mutant: the except branch gives up one attempt late
TransportAttemptsExhaustedLate(a) == a > MaxAttempts
\* attempt >= max_attempts, in the except branch
TransportAttemptsExhausted(a) == a >= MaxAttempts

\* mutant: the 429/5xx branch gives up one attempt late
TransientAttemptsExhaustedLate(a) == a > MaxAttempts
\* attempt >= max_attempts, in the 429/5xx branch
TransientAttemptsExhausted(a) == a >= MaxAttempts

\* mutant: the exponent is the attempt number itself
BackoffSleepByAttempt(a) == Pow(BackoffBase, a)
\* backoff_base ** (attempt - 1)
BackoffSleep(a) == Pow(BackoffBase, a - 1)

\* adjust_from_response: does the Retry-After branch apply?
RetryAfterApplies(r) ==
    /\ r.status \in SecondaryStatuses
    /\ r.retry_after # Absent
    /\ r.retry_after # Bad
    /\ r.retry_after > 0

\* adjust_from_response: int(headers.get(h, default) or default)
HeaderInt(h, default) == IF h = Absent THEN default ELSE h

\* adjust_from_response: one of the three int() conversions raises
QuotaParseFails(r) == r.limit = Bad \/ r.remaining = Bad \/ r.reset = Bad

\* adjust_from_response: reset_in
ResetIn(r, wall) ==
    LET reset == HeaderInt(r.reset, 0)
    IN  IF reset # 0 THEN Max(1, reset - wall) ELSE 60

\* adjust_from_response: 1.0 / allowed_rps, allowed_rps = max(0.01, remaining/reset_in * util)
InvAllowedRps(remaining, reset_in) ==
    IF remaining * TargetUtil <= reset_in THEN 100
    ELSE RoundDiv(100 * reset_in, remaining * TargetUtil)

\* adjust_from_response: target_interval
TargetInterval(remaining, reset_in) ==
    Min(MaxInterval, Max(MinInterval, InvAllowedRps(remaining, reset_in)))

\* mutant: the limit header is not looked at
QuotaAppliesAnyLimit(r) ==
    /\ ~QuotaParseFails(r)
    /\ HeaderInt(r.remaining, -1) >= 0
\* adjust_from_response: does the quota branch update the interval?
QuotaApplies(r) ==
    /\ ~QuotaParseFails(r)
    /\ HeaderInt(r.remaining, -1) >= 0
    /\ HeaderInt(r.limit, 0) > 0

\* mutant: the weights of the old interval and of the target are exchanged
EmaBlendSwapped(old, target) == RoundDiv(old * Smoothing + target * (100 - Smoothing), 100)
\* adjust_from_response: old * (1 - smoothing) + target_interval * smoothing
EmaBlend(old, target) == RoundDiv(old * (100 - Smoothing) + target * Smoothing, 100)

\* adjust_from_response: min(max_interval, interval * 1.5)
RetryAfterInterval(i) == Min(MaxInterval, RoundDiv(i * 3, 2))

\* mutant: the bump multiplies by 1.5, as the Retry-After branch does
BumpIntervalByHalf(i) == Min(MaxInterval, Max(MinInterval, RoundDiv(i * 3, 2)))
\* mutant: the doubling is not clamped to max_interval
BumpIntervalUnclamped(i) == Max(MinInterval, i * 2)
\* bump_after_hard_reset: min(max_interval, max(min_interval, interval * 2.0))
BumpInterval(i) == Min(MaxInterval, Max(MinInterval, i * 2))

\* the classification of section 4.2 / 6 of the design, for the history only
SpecClass(r) ==
    IF r.status = 403 /\ r.remaining = 0 THEN "hard"
    ELSE IF r.status \in SecondaryStatuses /\ r.retry_after # Absent THEN "secondary"
    ELSE IF r.status \in TransientStatuses THEN "transient"
    ELSE "terminal"

\* ------------------------------------------------------------------ Init
Init ==
    /\ now = 0
    /\ interval = InitialInterval
    /\ next_ts = 0
    /\ lock = NoThread
    /\ pc = [t \in Threads |-> "idle"]
    /\ attempt = [t \in Threads |-> 0]
    /\ sleep_left = [t \in Threads |-> 0]
    /\ tmp = [t \in Threads |-> 0]
    /\ resp = [t \in Threads |-> NoResp]
    /\ sends = 0
    /\ stat = [t \in Threads |-> NoStat]
    /\ slotEnd = 0
    /\ quotaZeroUntil = 0
    /\ WaveIdle
    /\ SecretsIdle
    /\ SessionsIdle
    /\ CacheIdle

\* --------------------------------------------------------------- actions

\* the clock advances
Tick ==
    /\ now < MaxTime
    /\ now' = now + 1
    /\ sleep_left' = [t \in Threads |-> Max(0, sleep_left[t] - 1)]
    /\ quotaZeroUntil' = IF quotaZeroUntil <= WallClock + 1 THEN 0 ELSE quotaZeroUntil
    /\ UNCHANGED <<otherVars, interval, next_ts, lock, pc, attempt, tmp, resp, sends, stat,
                   slotEnd>>

\* a thread enters request_with_rate_limit: attempt = 0
Call(t) ==
    /\ pc[t] \in {"idle", "returned", "raised"}
    /\ sends < MaxSends
    /\ pc' = [pc EXCEPT ![t] = "loop"]
    /\ attempt' = [attempt EXCEPT ![t] = 0]
    /\ sleep_left' = [sleep_left EXCEPT ![t] = 0]
    /\ tmp' = [tmp EXCEPT ![t] = 0]
    /\ resp' = [resp EXCEPT ![t] = NoResp]
    /\ stat' = [stat EXCEPT ![t] = NoStat]
    /\ UNCHANGED <<otherVars, now, interval, next_ts, lock, sends, slotEnd, quotaZeroUntil>>

\* mutant: the iteration after a hard-limit sleep does not count as an attempt
WaitTurnAcquireFailuresOnly(t) ==
    /\ pc[t] \in {"loop", "backoff", "hard_sleep"}
    /\ sleep_left[t] = 0
    /\ lock = NoThread
    /\ lock' = t
    /\ attempt' = [attempt EXCEPT ![t] = IF pc[t] = "hard_sleep" THEN @ ELSE @ + 1]
    /\ pc' = [pc EXCEPT ![t] = "wt"]
    /\ UNCHANGED <<otherVars, now, interval, next_ts, sleep_left, tmp, resp, sends, stat, slotEnd,
                   quotaZeroUntil>>

\* top of the while loop, once the sleep before `continue` is over:
\* attempt += 1, then wait_turn takes the lock
WaitTurnAcquire(t) ==
    /\ pc[t] \in {"loop", "backoff", "hard_sleep"}
    /\ sleep_left[t] = 0
    /\ lock = NoThread
    /\ lock' = t
    /\ attempt' = [attempt EXCEPT ![t] = @ + 1]
    /\ pc' = [pc EXCEPT ![t] = "wt"]
    /\ UNCHANGED <<otherVars, now, interval, next_ts, sleep_left, tmp, resp, sends, stat, slotEnd,
                   quotaZeroUntil>>

\* mutant: the slot is always based on the current time
WaitTurnFromNow(t) ==
    /\ pc[t] = "wt"
    /\ lock = t
    /\ LET sleep_for == Max(0, next_ts - now)
       IN  /\ next_ts' = now + interval
           /\ sleep_left' = [sleep_left EXCEPT ![t] = sleep_for]
           /\ slotEnd' = Max(slotEnd, now + interval)
    /\ lock' = NoThread
    /\ pc' = [pc EXCEPT ![t] = "pace"]
    /\ UNCHANGED <<otherVars, now, interval, attempt, tmp, resp, sends, stat, quotaZeroUntil>>

\* wait_turn inside the lock: reserve the slot; then release the lock and
\* sleep until the slot (now + sleep_left = the granted start time)
WaitTurn(t) ==
    /\ pc[t] = "wt"
    /\ lock = t
    /\ LET sleep_for == Max(0, next_ts - now)
           base == IF now > next_ts THEN now ELSE next_ts
       IN  /\ next_ts' = base + interval
           /\ sleep_left' = [sleep_left EXCEPT ![t] = sleep_for]
           /\ slotEnd' = Max(slotEnd, base + interval)
    /\ lock' = NoThread
    /\ pc' = [pc EXCEPT ![t] = "pace"]
    /\ UNCHANGED <<otherVars, now, interval, attempt, tmp, resp, sends, stat, quotaZeroUntil>>

\* mutant: session.request is called without waiting for the granted slot
CanSendEarly(t) ==
    /\ pc[t] = "pace"
    /\ sends < MaxSends
\* the pacing sleep is over and session.request may be called
CanSend(t) ==
    /\ pc[t] = "pace"
    /\ sleep_left[t] = 0
    /\ sends < MaxSends

\* what receiving response r records in the history
Received(t, r) ==
    /\ sends' = sends + 1
    /\ quotaZeroUntil' = IF r.remaining = 0 THEN Max(quotaZeroUntil, r.reset)
                         ELSE quotaZeroUntil

\* session.request raises RequestException and attempts remain: back off
TransportErrorRetry(t) ==
    /\ CanSend(t)
    /\ ~TransportAttemptsExhausted(attempt[t])
    /\ sends' = sends + 1
    /\ sleep_left' = [sleep_left EXCEPT ![t] = BackoffSleep(attempt[t])]
    /\ pc' = [pc EXCEPT ![t] = "backoff"]
    /\ stat' = [stat EXCEPT ![t].raises = @ + 1,
                            ![t].first = IF @ = "none" THEN "raise" ELSE @]
    /\ UNCHANGED <<otherVars, now, interval, next_ts, lock, attempt, tmp, resp, slotEnd,
                   quotaZeroUntil>>

\* session.request raises RequestException and no attempt remains: re-raise
TransportErrorRaise(t) ==
    /\ CanSend(t)
    /\ TransportAttemptsExhausted(attempt[t])
    /\ sends' = sends + 1
    /\ pc' = [pc EXCEPT ![t] = "raised"]
    /\ stat' = [stat EXCEPT ![t].raises = @ + 1,
                            ![t].first = IF @ = "none" THEN "raise" ELSE @]
    /\ UNCHANGED <<otherVars, now, interval, next_ts, lock, attempt, sleep_left, tmp, resp, slotEnd,
                   quotaZeroUntil>>

\* the response makes sleep_reset not None: go on to bump the limiter
HardLimit(t) ==
    /\ CanSend(t)
    /\ \E r \in Responses :
        /\ ComputeRateLimitSleep(r, WallClock) # None
        /\ Received(t, r)
        /\ tmp' = [tmp EXCEPT ![t] = ComputeRateLimitSleep(r, WallClock)]
        /\ stat' = [stat EXCEPT ![t].hard = IF r.remaining = 0 THEN @ + 1 ELSE @,
                                ![t].defaulted = IF r.remaining = 0 THEN @ ELSE @ + 1,
                                ![t].first = IF @ = "none" THEN SpecClass(r) ELSE @]
    /\ pc' = [pc EXCEPT ![t] = "bump_lock"]
    /\ UNCHANGED <<otherVars, now, interval, next_ts, lock, attempt, sleep_left, resp, slotEnd>>

\* mutant: bump_after_hard_reset updates interval without taking the lock
BumpAcquireUnlocked(t) ==
    /\ pc[t] = "bump_lock"
    /\ interval' = BumpInterval(interval)
    /\ sleep_left' = [sleep_left EXCEPT ![t] = tmp[t]]
    /\ tmp' = [tmp EXCEPT ![t] = 0]
    /\ pc' = [pc EXCEPT ![t] = "hard_sleep"]
    /\ UNCHANGED <<otherVars, now, next_ts, lock, attempt, resp, sends, stat, slotEnd,
                   quotaZeroUntil>>

\* bump_after_hard_reset takes the lock
BumpAcquire(t) ==
    /\ pc[t] = "bump_lock"
    /\ lock = NoThread
    /\ lock' = t
    /\ pc' = [pc EXCEPT ![t] = "bump"]
    /\ UNCHANGED <<otherVars, now, interval, next_ts, attempt, sleep_left, tmp, resp, sends, stat,
                   slotEnd, quotaZeroUntil>>

\* bump_after_hard_reset inside the lock, then time.sleep(sleep_reset); continue
BumpAfterHardReset(t) ==
    /\ pc[t] = "bump"
    /\ lock = t
    /\ interval' = BumpInterval(interval)
    /\ lock' = NoThread
    /\ sleep_left' = [sleep_left EXCEPT ![t] = tmp[t]]
    /\ tmp' = [tmp EXCEPT ![t] = 0]
    /\ pc' = [pc EXCEPT ![t] = "hard_sleep"]
    /\ UNCHANGED <<otherVars, now, next_ts, attempt, resp, sends, stat, slotEnd, quotaZeroUntil>>

\* a response that is not a hard limit and has a 429/5xx status
IsTransient(r) ==
    /\ ComputeRateLimitSleep(r, WallClock) = None
    /\ r.status \in TransientStatuses

\* 429/5xx and attempts remain: back off and retry
TransientRetry(t) ==
    /\ CanSend(t)
    /\ ~TransientAttemptsExhausted(attempt[t])
    /\ \E r \in Responses :
        /\ IsTransient(r)
        /\ Received(t, r)
        /\ stat' = [stat EXCEPT ![t].transients = @ + 1,
                                ![t].first = IF @ = "none" THEN SpecClass(r) ELSE @]
    /\ sleep_left' = [sleep_left EXCEPT ![t] = BackoffSleep(attempt[t])]
    /\ pc' = [pc EXCEPT ![t] = "backoff"]
    /\ UNCHANGED <<otherVars, now, interval, next_ts, lock, attempt, tmp, resp, slotEnd>>

\* 429/5xx and no attempt remains: return resp
TransientReturn(t) ==
    /\ CanSend(t)
    /\ TransientAttemptsExhausted(attempt[t])
    /\ \E r \in Responses :
        /\ IsTransient(r)
        /\ Received(t, r)
        /\ resp' = [resp EXCEPT ![t] = r]
        /\ stat' = [stat EXCEPT ![t].transients = @ + 1,
                                ![t].first = IF @ = "none" THEN SpecClass(r) ELSE @]
    /\ pc' = [pc EXCEPT ![t] = "returned"]
    /\ UNCHANGED <<otherVars, now, interval, next_ts, lock, attempt, sleep_left, tmp, slotEnd>>

\* a response that reaches limiter.adjust_from_response
ReachesAdjust(r) ==
    /\ ComputeRateLimitSleep(r, WallClock) = None
    /\ r.status \notin TransientStatuses

\* adjust_from_response, Retry-After branch: go on to take the lock
AdjustRetryAfter(t) ==
    /\ CanSend(t)
    /\ \E r \in Responses :
        /\ ReachesAdjust(r)
        /\ RetryAfterApplies(r)
        /\ Received(t, r)
        /\ resp' = [resp EXCEPT ![t] = r]
        /\ stat' = [stat EXCEPT ![t].adjusts = @ + 1,
                                ![t].first = IF @ = "none" THEN SpecClass(r) ELSE @]
    /\ pc' = [pc EXCEPT ![t] = "ra_lock"]
    /\ UNCHANGED <<otherVars, now, interval, next_ts, lock, attempt, sleep_left, tmp, slotEnd>>

RetryAfterAcquire(t) ==
    /\ pc[t] = "ra_lock"
    /\ lock = NoThread
    /\ lock' = t
    /\ pc' = [pc EXCEPT ![t] = "ra"]
    /\ UNCHANGED <<otherVars, now, interval, next_ts, attempt, sleep_left, tmp, resp, sends, stat,
                   slotEnd, quotaZeroUntil>>

\* mutant: time.sleep(ra_s) is called inside the `with self._lock` block
RetryAfterBumpSleepInLock(t) ==
    /\ pc[t] = "ra"
    /\ lock = t
    /\ next_ts' = now + resp[t].retry_after
    /\ interval' = RetryAfterInterval(interval)
    /\ sleep_left' = [sleep_left EXCEPT ![t] = resp[t].retry_after]
    /\ pc' = [pc EXCEPT ![t] = "ra_sleep"]
    /\ UNCHANGED <<otherVars, now, lock, attempt, tmp, resp, sends, stat, slotEnd, quotaZeroUntil>>

\* Retry-After branch inside the lock, then time.sleep(ra_s)
RetryAfterBump(t) ==
    /\ pc[t] = "ra"
    /\ lock = t
    /\ next_ts' = now + resp[t].retry_after
    /\ interval' = RetryAfterInterval(interval)
    /\ lock' = NoThread
    /\ sleep_left' = [sleep_left EXCEPT ![t] = resp[t].retry_after]
    /\ pc' = [pc EXCEPT ![t] = "ra_sleep"]
    /\ UNCHANGED <<otherVars, now, attempt, tmp, resp, sends, stat, slotEnd, quotaZeroUntil>>

\* the Retry-After sleep is over: adjust_from_response returns; return resp
RetryAfterReturn(t) ==
    /\ pc[t] = "ra_sleep"
    /\ sleep_left[t] = 0
    /\ pc' = [pc EXCEPT ![t] = "returned"]
    /\ UNCHANGED <<otherVars, now, interval, next_ts, lock, attempt, sleep_left, tmp, resp, sends,
                   stat, slotEnd, quotaZeroUntil>>

\* adjust_from_response, quota branch: compute target_interval, go on to the lock
AdjustQuota(t) ==
    /\ CanSend(t)
    /\ \E r \in Responses :
        /\ ReachesAdjust(r)
        /\ ~RetryAfterApplies(r)
        /\ QuotaApplies(r)
        /\ Received(t, r)
        /\ resp' = [resp EXCEPT ![t] = r]
        /\ tmp' = [tmp EXCEPT ![t] = TargetInterval(r.remaining, ResetIn(r, WallClock))]
        /\ stat' = [stat EXCEPT ![t].adjusts = @ + 1,
                                ![t].first = IF @ = "none" THEN SpecClass(r) ELSE @]
    /\ pc' = [pc EXCEPT ![t] = "ema_lock"]
    /\ UNCHANGED <<otherVars, now, interval, next_ts, lock, attempt, sleep_left, slotEnd>>

EmaAcquire(t) ==
    /\ pc[t] = "ema_lock"
    /\ lock = NoThread
    /\ lock' = t
    /\ pc' = [pc EXCEPT ![t] = "ema"]
    /\ UNCHANGED <<otherVars, now, interval, next_ts, attempt, sleep_left, tmp, resp, sends, stat,
                   slotEnd, quotaZeroUntil>>

\* the moving average inside the lock; adjust_from_response returns; return resp
EmaUpdate(t) ==
    /\ pc[t] = "ema"
    /\ lock = t
    /\ interval' = EmaBlend(interval, tmp[t])
    /\ lock' = NoThread
    /\ tmp' = [tmp EXCEPT ![t] = 0]
    /\ pc' = [pc EXCEPT ![t] = "returned"]
    /\ UNCHANGED <<otherVars, now, next_ts, attempt, sleep_left, resp, sends, stat, slotEnd,
                   quotaZeroUntil>>

\* adjust_from_response changes nothing (headers unusable); return resp
AdjustNoop(t) ==
    /\ CanSend(t)
    /\ \E r \in Responses :
        /\ ReachesAdjust(r)
        /\ ~RetryAfterApplies(r)
        /\ ~QuotaApplies(r)
        /\ Received(t, r)
        /\ resp' = [resp EXCEPT ![t] = r]
        /\ stat' = [stat EXCEPT ![t].adjusts = @ + 1,
                                ![t].first = IF @ = "none" THEN SpecClass(r) ELSE @]
    /\ pc' = [pc EXCEPT ![t] = "returned"]
    /\ UNCHANGED <<otherVars, now, interval, next_ts, lock, attempt, sleep_left, tmp, slotEnd>>

Next ==
    \/ Tick
    \/ \E t \in Threads : Call(t)
    \/ \E t \in Threads : WaitTurnAcquire(t)
    \/ \E t \in Threads : WaitTurn(t)
    \/ \E t \in Threads : TransportErrorRetry(t)
    \/ \E t \in Threads : TransportErrorRaise(t)
    \/ \E t \in Threads : HardLimit(t)
    \/ \E t \in Threads : BumpAcquire(t)
    \/ \E t \in Threads : BumpAfterHardReset(t)
    \/ \E t \in Threads : TransientRetry(t)
    \/ \E t \in Threads : TransientReturn(t)
    \/ \E t \in Threads : AdjustRetryAfter(t)
    \/ \E t \in Threads : RetryAfterAcquire(t)
    \/ \E t \in Threads : RetryAfterBump(t)
    \/ \E t \in Threads : RetryAfterReturn(t)
    \/ \E t \in Threads : AdjustQuota(t)
    \/ \E t \in Threads : EmaAcquire(t)
    \/ \E t \in Threads : EmaUpdate(t)
    \/ \E t \in Threads : AdjustNoop(t)

Spec == Init /\ [][Next]_vars

TypeOK ==
    /\ now \in 0..MaxTime
    /\ interval \in Nat
    /\ lock \in Threads \cup {NoThread}
    /\ sends \in 0..MaxSends

\* ---------------------------------------------------------------- claims

\* thread t completes a slot reservation in this step; the slot it is granted
Reserves(t) == pc[t] = "wt" /\ pc'[t] = "pace"
Granted(t)  == now + sleep_left'[t]

\* the sends of thread t's current call, each counted by what it met
SendsOfCall(t) ==
    stat[t].raises + stat[t].transients + stat[t].hard + stat[t].defaulted
        + stat[t].adjusts
OnlyRaises(t)     == SendsOfCall(t) = stat[t].raises
OnlyTransients(t) == SendsOfCall(t) = stat[t].transients

\* thread t's call gave up: it raised, or returned a 429/5xx response
GaveUp(t) ==
    \/ pc[t] = "raised"
    \/ pc[t] = "returned" /\ resp[t].status \in TransientStatuses

\* C1: every slot granted by wait_turn starts no earlier than any earlier
\* granted slot plus the interval in force when that earlier slot was
\* reserved (so no two granted start times coincide).
C1_PacingLowerBound ==
    [][\A t \in Threads : Reserves(t) => Granted(t) >= slotEnd]_vars

\* C2: after a response with remaining = 0 has been received, no request is
\* sent before the reset_at of that response.
C2_NoSendBeforeReset ==
    [][sends' > sends => quotaZeroUntil <= WallClock]_vars

\* C3: responses with status 403 and remaining = 0 consume no attempt: a call
\* that met no other hard-limit response gives up only once it has met
\* max_attempts transport errors or 429/5xx responses.
C3_HardLimitConsumesNoAttempt ==
    \A t \in Threads :
        (GaveUp(t) /\ stat[t].defaulted = 0)
            => stat[t].raises + stat[t].transients = MaxAttempts

\* C4: a 403 response with a positive Retry-After and remaining quota not 0
\* is never the value returned to the caller.
C4_SecondaryLimit403Absorbed ==
    \A t \in Threads :
        pc[t] = "returned" =>
            ~(resp[t].status = 403 /\ resp[t].retry_after > 0 /\ resp[t].remaining > 0)

\* C5: a 429 response with a Retry-After is handled as a secondary limit and
\* is never returned to the caller for lack of attempts.
C5_RetryAfter429Absorbed ==
    \A t \in Threads :
        pc[t] = "returned" => ~(resp[t].status = 429 /\ resp[t].retry_after > 0)

\* C6: in every reachable state min_interval <= interval <= max_interval.
C6_IntervalWithinBounds ==
    MinInterval <= interval /\ interval <= MaxInterval

\* a hard-stop bump has run into the ceiling
C6_Witness ==
    /\ interval = MaxInterval
    /\ interval # InitialInterval
    /\ \E t \in Threads : pc[t] = "hard_sleep"

\* C7: while every send of a call raises a transport error, the call makes
\* at most max_attempts sends, raises exactly when it has made max_attempts
\* sends, and never returns.
C7_AlwaysRaisingTransport ==
    \A t \in Threads :
        OnlyRaises(t) =>
            /\ stat[t].raises <= MaxAttempts
            /\ (pc[t] = "raised") <=> (stat[t].raises = MaxAttempts)
            /\ pc[t] # "returned"

\* a call has raised after max_attempts sends that all raised
C7_Witness ==
    \E t \in Threads :
        pc[t] = "raised" /\ OnlyRaises(t) /\ stat[t].raises = MaxAttempts

\* C8: while every send of a call returns a 429/5xx response, the call makes
\* at most max_attempts sends, returns exactly when it has made max_attempts
\* sends, the value returned is that 429/5xx response, and it never raises.
C8_AlwaysTransientTransport ==
    \A t \in Threads :
        (OnlyTransients(t) /\ SendsOfCall(t) > 0) =>
            /\ stat[t].transients <= MaxAttempts
            /\ (pc[t] = "returned") <=> (stat[t].transients = MaxAttempts)
            /\ pc[t] = "returned" => resp[t].status \in TransientStatuses
            /\ pc[t] # "raised"

\* a call has returned a 503 after max_attempts sends that all met 429/5xx
C8_Witness ==
    \E t \in Threads :
        /\ pc[t] = "returned"
        /\ OnlyTransients(t)
        /\ stat[t].transients = MaxAttempts
        /\ resp[t].status = 503

\* C9: a call whose first response is a success or a permanent client error
\* makes exactly one send, applies exactly one feedback update and returns,
\* with no hard wait, no backoff and no retry.
C9_TerminalResponseReturnedAtOnce ==
    \A t \in Threads :
        stat[t].first = "terminal" =>
            /\ SendsOfCall(t) = 1
            /\ stat[t].adjusts = 1
            /\ pc[t] \in {"ema_lock", "ema", "returned"}

\* C10: while a thread sleeps the hard-exhaustion wait w it computed, every
\* slot reserved by another thread starts no earlier than bump time + w.
C10_HardStopPushesNextEligible ==
    [][\A t, u \in Threads :
         (t # u /\ pc[t] = "hard_sleep" /\ Reserves(u))
             => Granted(u) >= now + sleep_left[t]]_vars

\* positions at which a thread is inside a time.sleep
SleepingPcs == {"pace", "backoff", "hard_sleep", "ra_sleep"}
\* positions at which a thread is inside a `with self._lock` block
LockedPcs == {"wt", "bump", "ra", "ema"}

\* C11: bump_after_hard_reset sets interval to min(max_interval, 2 * interval);
\* it never decreases interval and never leaves it above max_interval.
C11_BumpDoublesClamped ==
    [][\A t \in Threads :
         (pc[t] = "bump" /\ pc'[t] = "hard_sleep") =>
             /\ interval' = Min(MaxInterval, 2 * interval)
             /\ interval' >= interval
             /\ interval' <= MaxInterval]_vars

\* a bump has doubled the initial interval below the ceiling
C11_Witness ==
    /\ \E t \in Threads : pc[t] = "hard_sleep" /\ stat[t].hard = 1
    /\ interval = 2 * InitialInterval
    /\ interval < MaxInterval

\* C12: a thread that is sleeping does not hold the lock, and the holder of
\* the lock is inside a `with` block and not sleeping.
C12_NoSleepWhileLocked ==
    /\ \A t \in Threads :
           (pc[t] \in SleepingPcs \/ sleep_left[t] > 0) => lock # t
    /\ lock # NoThread => (pc[lock] \in LockedPcs /\ sleep_left[lock] = 0)

\* one thread sleeps while another holds the lock to reserve its slot
C12_Witness ==
    \E t, u \in Threads :
        /\ t # u
        /\ pc[t] \in SleepingPcs
        /\ sleep_left[t] > 0
        /\ lock = u
        /\ pc[u] = "wt"

\* C13: every step that changes interval or next_ts is taken by the thread
\* holding the lock, inside its `with` block, and writes the value computed
\* from the fields as they are at that moment (no update is lost).
C13_WritesUnderLock ==
    [][(interval' # interval \/ next_ts' # next_ts) =>
          /\ lock \in Threads
          /\ pc[lock] \in LockedPcs
          /\ pc'[lock] # pc[lock]
          /\ lock' = NoThread
          /\ pc[lock] = "wt" =>
                 (interval' = interval /\ next_ts' = Max(now, next_ts) + interval)
          /\ pc[lock] = "bump" =>
                 (interval' = BumpInterval(interval) /\ next_ts' = next_ts)
          /\ pc[lock] = "ra" =>
                 (interval' = RetryAfterInterval(interval)
                     /\ next_ts' = now + resp[lock].retry_after)
          /\ pc[lock] = "ema" =>
                 (interval' = EmaBlend(interval, tmp[lock]) /\ next_ts' = next_ts)]_vars

\* both threads have bumped: the interval is the initial one bumped twice
C13_Witness ==
    /\ \A t \in Threads : pc[t] = "hard_sleep"
    /\ interval = BumpInterval(BumpInterval(InitialInterval))

\* C14: wait_turn at time now makes the caller wait max(0, next_ts - now),
\* sets next_ts to max(now, next_ts) + interval, leaves interval unchanged
\* and ends normally with the lock released.
C14_WaitTurnReservesSlot ==
    [][\A t \in Threads :
         (pc[t] = "wt" /\ pc'[t] # "wt") =>
             /\ pc'[t] = "pace"
             /\ sleep_left'[t] = Max(0, next_ts - now)
             /\ next_ts' = Max(now, next_ts) + interval
             /\ interval' = interval
             /\ lock' = NoThread]_vars

\* a thread waits for a slot that lies ahead of the clock
C14_Witness ==
    \E t \in Threads :
        /\ pc[t] = "pace"
        /\ sleep_left[t] > 0
        /\ next_ts = now + sleep_left[t] + interval

\* C19: a call starts raising only in a step in which its send raised a
\* transport error while attempt >= max_attempts; no response of any kind
\* makes it raise.
C19_RaisesOnlyOnTransportError ==
    [][\A t \in Threads :
         (pc'[t] = "raised" /\ pc[t] # "raised") =>
             /\ pc[t] = "pace"
             /\ sends' = sends + 1
             /\ stat'[t].raises = stat[t].raises + 1
             /\ attempt[t] >= MaxAttempts]_vars

\* a call that met a hard limit has raised on a later transport error
C19_Witness ==
    \E t \in Threads :
        pc[t] = "raised" /\ stat[t].hard >= 1 /\ attempt[t] >= MaxAttempts

\* C20: a call is a bounded state machine: its loop counter, which counts the
\* sends of the call, never passes max_attempts.
C20_BoundedCall ==
    \A t \in Threads : attempt[t] <= MaxAttempts

\* the failed attempts (transport errors and 429/5xx responses) of t's call
Failures(t) == stat[t].raises + stat[t].transients

C26_HeaderlessForbiddenNotHard ==
    \A t \in Threads : stat[t].defaulted = 0

\* C27: no step lowers next_ts.
C27_NextEligibleMonotone ==
    [][next_ts' >= next_ts]_vars

\* C28: every session.request is made by a thread whose pacing sleep is over,
\* and uses up the reservation that thread made: a thread is in the pacing
\* sleep only through a wait_turn of its own, which reserves the slot
\* max(now, next_ts) and sleeps until then, and leaves it only by sending.
C28_PaceBeforeSend ==
    [][/\ sends' # sends =>
            \E t \in Threads :
                /\ pc[t] = "pace" /\ pc'[t] # "pace"
                /\ sleep_left[t] = 0
                /\ sends' = sends + 1
       /\ \A t \in Threads :
            /\ (pc[t] = "pace" /\ pc'[t] # "pace") => sends' = sends + 1
            /\ (pc'[t] = "pace" /\ pc[t] # "pace") =>
                  /\ pc[t] = "wt"
                  /\ now + sleep_left'[t] = Max(now, next_ts)
                  /\ next_ts' = Max(now, next_ts) + interval]_vars

\* a call has sent again, through a second reservation, after a hard wait
C28_Witness ==
    \E t \in Threads :
        /\ pc[t] = "returned"
        /\ attempt[t] = 2
        /\ stat[t].hard = 1 /\ stat[t].adjusts = 1

\* thread t's call sends in this step
SendStep(t) == pc[t] = "pace" /\ pc'[t] # "pace"

C32_RetryAfterDoublesAndPushes ==
    [][\A t \in Threads :
         /\ (pc[t] = "ra" /\ pc'[t] = "ra_sleep")
               => /\ interval' = Min(MaxInterval, 2 * interval)
                  /\ next_ts' >= now + resp[t].retry_after
         /\ \A u \in Threads :
               (pc[t] = "ra_sleep" /\ Reserves(u))
                   => Granted(u) >= now + sleep_left[t]]_vars

\* ------------------------------------------ feedback arithmetic, milliseconds
\* The functions of the controller applied to one response snapshot, with the
\* shipped defaults of the settings and times in milliseconds.  `now` is
\* time.time(), resp[1] the snapshot, tmp[1] the local last computed
\* (sleep_reset / target_interval), sends the number of feedback updates applied.

MaxFeeds == 3

Ms == 1000
MinIntervalMs   == 150
MaxIntervalMs   == 5000
RateLimitBufferMs == 2000
DefaultResetInMs == 60000
MaxInvRpsMs == 100000

FbTimes     == {EpochOffset * Ms, EpochOffset * Ms + 400}
FbIntervals == {MinIntervalMs, 1000, 2200, MaxIntervalMs}
FbResponses ==
    [status : {200, 403}, limit : {Absent, Bad, 0, 5000},
     remaining : {Absent, Bad, 0, 10, 4000},
     reset : {Absent, Bad, 0, 5, 40, 70}, retry_after : {Absent}]

\* mutant: the buffer is left out of the wait
ComputeRateLimitSleepMsNoBuffer(r, wall) ==
    IF r.remaining = Bad THEN None
    ELSE LET remaining == IF r.remaining = Absent THEN 0 ELSE r.remaining IN
         IF r.status = 403 /\ remaining = 0
         THEN IF r.reset = Bad THEN None
              ELSE LET reset == IF r.reset = Absent THEN 0 ELSE r.reset
                   IN  Max(0, reset * Ms - wall)
         ELSE None
\* _compute_rate_limit_sleep(resp) at wall-clock time `wall`
ComputeRateLimitSleepMs(r, wall) ==
    IF r.remaining = Bad THEN None
    ELSE LET remaining == IF r.remaining = Absent THEN 0 ELSE r.remaining IN
         IF r.status = 403 /\ remaining = 0
         THEN IF r.reset = Bad THEN None
              ELSE LET reset == IF r.reset = Absent THEN 0 ELSE r.reset
                   IN  Max(0, reset * Ms - wall + RateLimitBufferMs)
         ELSE None

\* mutant: an absent or zero reset header is not replaced by 60 seconds
ResetInMsNoDefault(r, wall) == Max(Ms, HeaderInt(r.reset, 0) * Ms - wall)
\* adjust_from_response: reset_in
ResetInMs(r, wall) ==
    LET reset == HeaderInt(r.reset, 0)
    IN  IF reset # 0 THEN Max(Ms, reset * Ms - wall) ELSE DefaultResetInMs

\* adjust_from_response: 1.0 / allowed_rps, allowed_rps = max(0.01, remaining/reset_in * util)
InvAllowedRpsMs(remaining, reset_in) ==
    IF remaining * TargetUtil * Ms <= reset_in THEN MaxInvRpsMs
    ELSE RoundDiv(100 * reset_in, remaining * TargetUtil)

\* mutant: the target is not clamped to max_interval
TargetIntervalMsUnclamped(remaining, reset_in) ==
    Max(MinIntervalMs, InvAllowedRpsMs(remaining, reset_in))
\* adjust_from_response: target_interval
TargetIntervalMs(remaining, reset_in) ==
    Min(MaxIntervalMs, Max(MinIntervalMs, InvAllowedRpsMs(remaining, reset_in)))

InitFeedback ==
    /\ now \in FbTimes
    /\ interval \in FbIntervals
    /\ next_ts = 0
    /\ lock = NoThread
    /\ pc = [t \in Threads |-> "idle"]
    /\ attempt = [t \in Threads |-> 0]
    /\ sleep_left = [t \in Threads |-> 0]
    /\ tmp = [t \in Threads |-> 0]
    /\ \E r \in FbResponses : resp = [t \in Threads |-> r]
    /\ sends = 0
    /\ stat = [t \in Threads |-> NoStat]
    /\ slotEnd = 0
    /\ quotaZeroUntil = 0
    /\ WaveIdle
    /\ SecretsIdle
    /\ SessionsIdle
    /\ CacheIdle

\* _compute_rate_limit_sleep applied to the snapshot
ComputeSleep ==
    /\ pc[1] \in {"idle", "returned"}
    /\ tmp' = [tmp EXCEPT ![1] = ComputeRateLimitSleepMs(resp[1], now)]
    /\ pc' = [pc EXCEPT ![1] = IF ComputeRateLimitSleepMs(resp[1], now) = None
                                THEN "loop" ELSE "hard_sleep"]
    /\ UNCHANGED <<otherVars, now, interval, next_ts, lock, attempt, sleep_left, resp, sends,
                   stat, slotEnd, quotaZeroUntil>>

\* adjust_from_response applied to the snapshot (no Retry-After header): the
\* quota branch blends the interval, anything else leaves it alone
FeedAdjust ==
    /\ sends < MaxFeeds
    /\ sends' = sends + 1
    /\ pc' = [pc EXCEPT ![1] = "returned"]
    /\ IF QuotaApplies(resp[1])
       THEN LET target == TargetIntervalMs(HeaderInt(resp[1].remaining, -1),
                                           ResetInMs(resp[1], now))
            IN  /\ tmp' = [tmp EXCEPT ![1] = target]
                /\ interval' = EmaBlend(interval, target)
       ELSE UNCHANGED <<tmp, interval>>
    /\ UNCHANGED <<otherVars, now, next_ts, lock, attempt, sleep_left, resp, stat, slotEnd,
                   quotaZeroUntil>>

NextFeedback == ComputeSleep \/ FeedAdjust

SpecFeedback == InitFeedback /\ [][NextFeedback]_vars

\* the snapshot carries a positive limit, a remaining count and a reset header
\* that is an integer or absent
QuotaSnapshot(r) == r.limit > 0 /\ r.remaining >= 0 /\ r.reset # Bad

\* C15 as stated: for every response with limit > 0 and remaining >= 0 the
\* feedback update takes reset_in = max(1.0, reset_at - now) whatever the reset
\* header is (an absent one counting as 0), allowed_rate = max(0.01,
\* remaining / reset_in * target_utilization), target_interval = 1/allowed_rate
\* clamped to [min_interval, max_interval], and blends the interval with it.
C15_QuotaUpdateAnyReset ==
    [][(sends' = sends + 1 /\ QuotaSnapshot(resp[1])) =>
        LET remaining == resp[1].remaining
            reset_at  == IF resp[1].reset = Absent THEN 0 ELSE resp[1].reset * Ms
            reset_in  == Max(Ms, reset_at - now)
            inv_rate  == IF remaining * TargetUtil * Ms <= reset_in THEN MaxInvRpsMs
                         ELSE RoundDiv(100 * reset_in, remaining * TargetUtil)
            target    == Min(MaxIntervalMs, Max(MinIntervalMs, inv_rate))
        IN  interval' = RoundDiv(interval * (100 - Smoothing) + target * Smoothing, 100)
      ]_vars

\* C15 amended: the same update with reset_in = max(1.0, reset_at - now) when
\* the reset header is a non-zero integer and reset_in = 60 when the header is
\* absent or zero; a reset header that is not an integer leaves the interval
\* unchanged.
C15_QuotaUpdate ==
    [][(sends' = sends + 1 /\ resp[1].limit > 0 /\ resp[1].remaining >= 0) =>
        LET remaining == resp[1].remaining
            reset_in  == IF resp[1].reset \in {Absent, 0} THEN DefaultResetInMs
                         ELSE Max(Ms, resp[1].reset * Ms - now)
            inv_rate  == IF remaining * TargetUtil * Ms <= reset_in THEN MaxInvRpsMs
                         ELSE RoundDiv(100 * reset_in, remaining * TargetUtil)
            target    == Min(MaxIntervalMs, Max(MinIntervalMs, inv_rate))
        IN  IF resp[1].reset = Bad THEN interval' = interval
            ELSE interval' = RoundDiv(interval * (100 - Smoothing) + target * Smoothing, 100)
      ]_vars

\* an update has been applied from a snapshot without a reset header: 10
\* requests left over the assumed 60 seconds give the target max_interval
C15_Witness ==
    /\ sends = 1 /\ pc[1] = "returned"
    /\ resp[1].reset = Absent /\ resp[1].limit = 5000 /\ resp[1].remaining = 10
    /\ tmp[1] = MaxIntervalMs
    /\ interval = 2200

\* C16: each feedback update from one constant snapshot keeps the same target,
\* leaves the interval between its previous value and the target (no
\* overshoot), and shrinks the distance to the target by the factor
\* (1 - smoothing), up to the rounding of one unit.
C16_EmaConverges ==
    [][(sends' = sends + 1 /\ QuotaSnapshot(resp[1])) =>
        LET target == tmp'[1]
            dist   == Max(interval - target, target - interval)
            dist2  == Max(interval' - target, target - interval')
        IN  /\ pc[1] = "returned" => target = tmp[1]
            /\ Min(interval, target) <= interval'
            /\ interval' <= Max(interval, target)
            /\ 100 * dist2 <= (100 - Smoothing) * dist + 50
            /\ 100 * dist2 >= (100 - Smoothing) * dist - 50
      ]_vars

\* two updates from one snapshot have moved the interval from 1000 ms towards
\* the target 5000 ms: 2200 ms, then 3040 ms
C16_Witness ==
    /\ sends = 2 /\ pc[1] = "returned"
    /\ QuotaSnapshot(resp[1])
    /\ tmp[1] = MaxIntervalMs
    /\ interval = 3040

\* the scenario's snapshot: limit 5000, remaining 10, reset about 60 s ahead
ScenarioSnapshot ==
    /\ resp[1].limit = 5000 /\ resp[1].remaining = 10 /\ resp[1].reset > 0
    /\ resp[1].reset * Ms - now >= 59 * Ms
    /\ resp[1].reset * Ms - now <= 60 * Ms

\* C17 as stated: from interval 1 s, with target_utilization 0.6 and smoothing
\* 0.3, one update from the scenario's snapshot gives a target of about 10 s
\* and a new interval of about 3.7 s.
C17_ScenarioTenSeconds ==
    [][(sends' = sends + 1 /\ interval = 1000 /\ ScenarioSnapshot) =>
        /\ tmp'[1] >= 9500 /\ tmp'[1] <= 10500
        /\ interval' >= 3600 /\ interval' <= 3800
      ]_vars

\* C17 amended: with max_interval at its default of 5 s the target of about
\* 10 s is clamped to 5 s and the new interval is 1*0.7 + 5*0.3 = 2.2 s.
C17_ScenarioClamped ==
    [][(sends' = sends + 1 /\ interval = 1000 /\ ScenarioSnapshot) =>
        /\ tmp'[1] = MaxIntervalMs
        /\ interval' = 2200
      ]_vars

\* the scenario's update has been applied to a controller at 1 s
C17_Witness ==
    /\ sends = 1 /\ pc[1] = "returned"
    /\ ScenarioSnapshot
    /\ tmp[1] = 5000
    /\ interval = 2200

\* C18: for a 403 with remaining 0 and an integer reset header a wait is
\* computed, it equals max(0, reset_at - now + buffer), it is never negative,
\* and for reset_at = now + 30 s it equals 30 s + buffer.
C18_HardWait ==
    (/\ pc[1] \in {"hard_sleep", "loop"}
     /\ resp[1].status = 403 /\ resp[1].remaining = 0 /\ resp[1].reset >= 0) =>
        /\ pc[1] = "hard_sleep"
        /\ tmp[1] = Max(0, resp[1].reset * Ms - now + RateLimitBufferMs)
        /\ tmp[1] >= 0
        /\ resp[1].reset * Ms = now + 30 * Ms => tmp[1] = 30 * Ms + RateLimitBufferMs

\* the wait has been computed for a reset 30 s ahead
C18_Witness ==
    /\ pc[1] = "hard_sleep"
    /\ resp[1].status = 403 /\ resp[1].remaining = 0
    /\ resp[1].reset * Ms = now + 30 * Ms
    /\ tmp[1] = 32000

\* the quota headers of the snapshot are unusable: limit or remaining is
\* missing or not a number, limit is not positive, or reset is not a number
UnusableQuota(r) ==
    \/ r.limit \in {Absent, Bad} \/ r.limit <= 0
    \/ r.remaining \in {Absent, Bad}
    \/ r.reset = Bad

LimiterIdle ==
    /\ now = 0
    /\ interval = InitialInterval
    /\ next_ts = 0
    /\ lock = NoThread
    /\ pc = [t \in Threads |-> "idle"]
    /\ attempt = [t \in Threads |-> 0]
    /\ sleep_left = [t \in Threads |-> 0]
    /\ tmp = [t \in Threads |-> 0]
    /\ resp = [t \in Threads |-> NoResp]
    /\ sends = 0
    /\ stat = [t \in Threads |-> NoStat]
    /\ slotEnd = 0
    /\ quotaZeroUntil = 0

\* ------------------------------------------- scripts/launch_codeql_wave.py
\* run() submits the scans of one wave to the portal server, polling the
\* number of scans with status "running" before each submission.  A
\* submitted scan is queued on the server, starts running at some later
\* moment and finishes at some moment after that.

WaveSize      == 3      \* len(wave)
MaxConcurrent == 2      \* args.max_concurrent (MAX_CONCURRENT)

\* count_running(base)
CountRunning == scans.running

InitWave ==
    /\ \E slugs \in [1..WaveSize -> BOOLEAN] :
           wave = [pc |-> "poll", idx |-> 0, launched |-> 0, slugs |-> slugs]
    /\ scans = [queued |-> 0, running |-> 0]
    /\ LimiterIdle
    /\ SecretsIdle
    /\ SessionsIdle
    /\ CacheIdle

\* `while idx < len(wave)` is false: print the summary and return 0
WaveDone ==
    /\ wave.pc = "poll"
    /\ wave.idx >= WaveSize
    /\ wave' = [wave EXCEPT !.pc = "done"]
    /\ UNCHANGED <<scans, limiterVars, secretVars, sessionVars, cacheVars>>

\* count_running(base) >= max_concurrent: time.sleep(5)
PollBusy ==
    /\ wave.pc = "poll"
    /\ wave.idx < WaveSize
    /\ CountRunning >= MaxConcurrent
    /\ wave' = [wave EXCEPT !.pc = "wait"]
    /\ UNCHANGED <<scans, limiterVars, secretVars, sessionVars, cacheVars>>

\* count_running(base) < max_concurrent: leave the inner loop
PollFree ==
    /\ wave.pc = "poll"
    /\ wave.idx < WaveSize
    /\ CountRunning < MaxConcurrent
    /\ wave' = [wave EXCEPT !.pc = "launch"]
    /\ UNCHANGED <<scans, limiterVars, secretVars, sessionVars, cacheVars>>

\* to_slug gives "": idx += 1; continue
SkipInvalid ==
    /\ wave.pc = "launch"
    /\ ~wave.slugs[wave.idx + 1]
    /\ wave' = [wave EXCEPT !.idx = @ + 1, !.pc = "poll"]
    /\ UNCHANGED <<scans, limiterVars, secretVars, sessionVars, cacheVars>>

\* post_scan succeeds: the server has a new scan; launched += 1; idx += 1; time.sleep(2)
PostScan ==
    /\ wave.pc = "launch"
    /\ wave.slugs[wave.idx + 1]
    /\ scans' = [scans EXCEPT !.queued = @ + 1]
    /\ wave' = [wave EXCEPT !.launched = @ + 1, !.idx = @ + 1, !.pc = "sleep"]
    /\ UNCHANGED <<limiterVars, secretVars, sessionVars, cacheVars>>

\* post_scan raises: idx += 1; time.sleep(2)
PostFails ==
    /\ wave.pc = "launch"
    /\ wave.slugs[wave.idx + 1]
    /\ wave' = [wave EXCEPT !.idx = @ + 1, !.pc = "sleep"]
    /\ UNCHANGED <<scans, limiterVars, secretVars, sessionVars, cacheVars>>

\* time.sleep is over: back to the loop conditions
SleepOver ==
    /\ wave.pc \in {"wait", "sleep"}
    /\ wave' = [wave EXCEPT !.pc = "poll"]
    /\ UNCHANGED <<scans, limiterVars, secretVars, sessionVars, cacheVars>>

\* server: a queued scan starts running
ScanStarts ==
    /\ scans.queued > 0
    /\ scans' = [scans EXCEPT !.queued = @ - 1, !.running = @ + 1]
    /\ UNCHANGED <<wave, limiterVars, secretVars, sessionVars, cacheVars>>

\* server: a running scan finishes
ScanFinishes ==
    /\ scans.running > 0
    /\ scans' = [scans EXCEPT !.running = @ - 1]
    /\ UNCHANGED <<wave, limiterVars, secretVars, sessionVars, cacheVars>>

NextWave ==
    \/ WaveDone
    \/ PollBusy
    \/ PollFree
    \/ SkipInvalid
    \/ PostScan
    \/ PostFails
    \/ SleepOver
    \/ ScanStarts
    \/ ScanFinishes

SpecWave == InitWave /\ [][NextWave]_vars

\* C23: at every moment of a wave at most max_concurrent scans are running.
C23_RunningWithinCap ==
    scans.running <= MaxConcurrent

\* -------------------------------- secret_scanner_utils.persist_secret_leaks
\* One call of persist_secret_leaks with a list of `items` normalized
\* findings; the upsert RPC either raises or replies with a status and a body.

MaxItems == 3

\* resp.json(): an integer, some other JSON value, or a body that is not JSON
JsonOther == -100
NotJson   == -101
ReplyStatuses == {200, 201, 399, 400, 404, 500}
ReplyBodies == (-1 .. MaxItems + 1) \cup {JsonOther, NotJson}
Replies == [status : ReplyStatuses, body : ReplyBodies]
\* no POST sent yet / requests.post raised, so there is no response
NoReply     == [status |-> -1, body |-> NotJson]
PostRaised  == [status |-> 0, body |-> NotJson]

\* mutant: only the 5xx statuses count as a failed upsert
RpcFailedServerOnly(status) == status >= 500
\* resp.status_code >= 400
RpcFailed(status) == status >= 400

\* isinstance(resp.json(), int), False too when resp.json() raises
IsIntReply(b) == b \notin {JsonOther, NotJson}

InitPersist ==
    /\ \E n \in 0 .. MaxItems :
           persist = [pc |-> "call", items |-> n, posts |-> 0, reply |-> NoReply,
                      ret |-> None]
    /\ record = NotStarted
    /\ normalized = NotStarted
    /\ LimiterIdle
    /\ WaveIdle
    /\ SessionsIdle
    /\ CacheIdle

\* `if not items: return 0`
PersistEmpty ==
    /\ persist.pc = "call"
    /\ persist.items = 0
    /\ persist' = [persist EXCEPT !.pc = "returned", !.ret = 0]
    /\ UNCHANGED <<record, normalized, limiterVars, waveVars, sessionVars, cacheVars>>

\* requests.post raises: the outer except logs and returns 0
PostRaises ==
    /\ persist.pc = "call"
    /\ persist.items > 0
    /\ persist' = [persist EXCEPT !.pc = "returned", !.posts = @ + 1,
                                  !.reply = PostRaised, !.ret = 0]
    /\ UNCHANGED <<record, normalized, limiterVars, waveVars, sessionVars, cacheVars>>

\* the RPC answers with status >= 400: log and return 0
PostRejected ==
    /\ persist.pc = "call"
    /\ persist.items > 0
    /\ \E r \in Replies :
        /\ RpcFailed(r.status)
        /\ persist' = [persist EXCEPT !.pc = "returned", !.posts = @ + 1,
                                      !.reply = r, !.ret = 0]
    /\ UNCHANGED <<record, normalized, limiterVars, waveVars, sessionVars, cacheVars>>

\* the RPC answers with status < 400: return the integer of the body, or
\* len(payload)
PostAccepted ==
    /\ persist.pc = "call"
    /\ persist.items > 0
    /\ \E r \in Replies :
        /\ ~RpcFailed(r.status)
        /\ persist' = [persist EXCEPT !.pc = "returned", !.posts = @ + 1,
                                      !.reply = r,
                                      !.ret = IF IsIntReply(r.body) THEN r.body
                                              ELSE persist.items]
    /\ UNCHANGED <<record, normalized, limiterVars, waveVars, sessionVars, cacheVars>>

NextPersist ==
    \/ PersistEmpty
    \/ PostRaises
    \/ PostRejected
    \/ PostAccepted

SpecPersist == InitPersist /\ [][NextPersist]_vars

\* C24: persist_secret_leaks never raises; with no items it returns 0 and
\* sends nothing; otherwise it sends exactly one POST and returns 0 when the
\* POST raised or was answered with a status >= 400, the integer of the reply
\* when the reply is an integer, and the number of items otherwise.
C24_PersistResult ==
    /\ persist.pc \in {"call", "returned"}
    /\ persist.pc = "returned" =>
          IF persist.items = 0
          THEN persist.ret = 0 /\ persist.posts = 0
          ELSE /\ persist.posts = 1
               /\ persist.ret =
                     IF persist.reply = PostRaised THEN 0
                     ELSE IF persist.reply.status >= 400 THEN 0
                     ELSE IF persist.reply.body >= -1 THEN persist.reply.body
                     ELSE persist.items

\* three items were posted and the server reported one row
C24_Witness ==
    /\ persist.pc = "returned"
    /\ persist.items = 3 /\ persist.posts = 1
    /\ persist.reply # PostRaised
    /\ persist.reply.status = 200 /\ persist.reply.body = 1
    /\ persist.ret = 1

\* --------------------------- secret_scanner_utils.normalize_*_record
\* One raw finding handed to normalize_gitleaks_record or
\* normalize_trufflehog_record.  A field of the finding is a string, or
\* Missing (record.get gives None); an entropy is a number in tenths, Absent,
\* or Bad (a string that float() rejects); SourceMetadata is Missing, a
\* mapping, or present with the value None.

Missing == "<missing>"
PyNull  == "<None>"
Mapping == "<dict>"

HighEntropy == 50       \* entropy_val >= 5.0
LowEntropy  == 35       \* entropy_val < 3.5

RawRecords ==
    [isdict : BOOLEAN,
     Secret : {Missing, "", "abcd1234"}, secret : {Missing, "s3cr3t"},
     Raw : {Missing, "sk_live_example"},
     Entropy : {Absent, Bad, 0, 20, 35, 40, 50, 55}, entropy : {Absent, 55},
     Severity : {Missing, "low", "High", "critical", "info"},
     SourceMetadata : {Missing, PyNull, Mapping}]

NoResult == [kind |-> "not called", tool |-> "", detector |-> "", secret |-> "",
             confidence |-> ""]

\* a or b, for strings
StrOr(a, b) == IF a \notin {Missing, ""} THEN a ELSE b
\* a or b, for numbers (a non-numeric string is truthy)
NumOr(a, b) == IF a \notin {Absent, 0} THEN a ELSE b

\* str(...).lower()
Lower(x) == IF x = "High" THEN "high" ELSE IF x = Missing THEN "" ELSE x

\* normalize_gitleaks_record: the try/float(entropy) and the confidence ladder
GitleaksConfidence(r) ==
    LET entropy == NumOr(r.Entropy, r.entropy)
        entropy_val == IF entropy \in {Absent, Bad} THEN None ELSE entropy
    IN  IF entropy_val = None THEN "medium"
        ELSE IF entropy_val >= HighEntropy THEN "high"
        ELSE IF entropy_val < LowEntropy THEN "low"
        ELSE "medium"

\* normalize_trufflehog_record: the confidence ladder over the severity
TrufflehogConfidence(r) ==
    LET severity == Lower(StrOr(r.Severity, ""))
    IN  IF severity \in {"high", "critical"} THEN "high"
        ELSE IF severity = "low" THEN "low"
        ELSE "medium"

InitNormalize ==
    /\ record \in RawRecords
    /\ normalized = NoResult
    /\ persist = NotStarted
    /\ LimiterIdle
    /\ WaveIdle
    /\ SessionsIdle
    /\ CacheIdle

\* normalize_gitleaks_record(record)
NormalizeGitleaks ==
    /\ normalized.kind = "not called"
    /\ LET secret == StrOr(record.Secret, record.secret)
       IN  normalized' =
             IF ~record.isdict \/ secret \in {Missing, ""}
             THEN [NoResult EXCEPT !.kind = "none", !.tool = "gitleaks"]
             ELSE [kind |-> "record", tool |-> "gitleaks", detector |-> "gitleaks",
                   secret |-> secret, confidence |-> GitleaksConfidence(record)]
    /\ UNCHANGED <<record, persist, limiterVars, waveVars, sessionVars, cacheVars>>

\* normalize_trufflehog_record(record); record.get('SourceMetadata', {}).get
\* raises AttributeError when the key is present with the value None
NormalizeTrufflehog ==
    /\ normalized.kind = "not called"
    /\ LET secret == StrOr(record.Raw, record.secret)
       IN  normalized' =
             IF ~record.isdict \/ secret \in {Missing, ""}
             THEN [NoResult EXCEPT !.kind = "none", !.tool = "trufflehog"]
             ELSE IF record.SourceMetadata = PyNull
             THEN [NoResult EXCEPT !.kind = "raised", !.tool = "trufflehog"]
             ELSE [kind |-> "record", tool |-> "trufflehog", detector |-> "trufflehog",
                   secret |-> secret, confidence |-> TrufflehogConfidence(record)]
    /\ UNCHANGED <<record, persist, limiterVars, waveVars, sessionVars, cacheVars>>

NextNormalize == NormalizeGitleaks \/ NormalizeTrufflehog

SpecNormalize == InitNormalize /\ [][NextNormalize]_vars

\* C25: the result is None exactly when the finding is not a mapping or has
\* no non-empty secret field; otherwise it is a record tagged with the
\* detector, with confidence high for a gitleaks entropy >= 5.0 or a
\* trufflehog severity high/critical, low for an entropy < 3.5 or a severity
\* low, and medium otherwise or without entropy.
C25_NormalizeContract ==
    normalized.kind # "not called" =>
        LET tool      == normalized.tool
            hasSecret == IF tool = "gitleaks"
                         THEN \/ record.Secret \notin {Missing, ""}
                              \/ record.secret \notin {Missing, ""}
                         ELSE \/ record.Raw \notin {Missing, ""}
                              \/ record.secret \notin {Missing, ""}
            entropy   == IF record.Entropy # Absent THEN record.Entropy ELSE record.entropy
            expected  == IF tool = "gitleaks"
                         THEN IF entropy \in {Absent, Bad} THEN "medium"
                              ELSE IF entropy >= 50 THEN "high"
                              ELSE IF entropy < 35 THEN "low"
                              ELSE "medium"
                         ELSE IF record.Severity \in {"High", "critical"} THEN "high"
                              ELSE IF record.Severity = "low" THEN "low"
                              ELSE "medium"
        IN  IF ~record.isdict \/ ~hasSecret
            THEN normalized.kind = "none"
            ELSE /\ normalized.kind = "record"
                 /\ normalized.detector = tool
                 /\ normalized.confidence = expected

\* ------------------------- sessions built by make_rate_limited_session
\* Several sessions, each with the limiter make_rate_limited_session gave it
\* (none when adaptive throttling is disabled), and the calls of
\* request_with_rate_limit the threads make through them.  `now` is the clock
\* and `sends` counts the session.request calls, as above; the blocks under
\* the limiter's lock are taken as single steps.

MaxSessions == 2

\* the threads calling through these sessions; the interleaving of several
\* threads on one limiter is the subject of the specification above
Callers == {1}

NoLimiter == 0          \* getattr(session, "_auditgh_rate_limiter", None) is None

limiterLocals == <<interval, next_ts, lock, pc, attempt, sleep_left, tmp, resp, stat,
                   slotEnd, quotaZeroUntil>>

NoCall == [session |-> 0, min_delay |-> 0, pc |-> "idle", attempt |-> 0,
           sleep_left |-> 0, resp |-> NoResp]

\* mutant: one module-level limiter is handed to every session
NewLimiterShared == NoLimiter + 1
\* the _AdaptiveRateLimiter object a new session gets: a fresh one
NewLimiter == Len(limiters) + 1

\* mutant: without a limiter there is no pre-request delay
FixedDelayNone(d) == 0
\* the pacing without a limiter: time.sleep(min_delay_sec) if min_delay_sec > 0
FixedDelay(d) == IF d > 0 THEN d ELSE 0

\* the responses sent to these calls: a success with quota headers, a hard
\* limit, a 403 and a 404 without any headers, a 403 with Retry-After, a 503
SessionResponses ==
    {r \in Responses :
        \/ r.status = 200 /\ r.remaining = 5
        \/ r.status = 403 /\ r.remaining = 0 /\ r.retry_after = Absent
        \/ r.status = 403 /\ r.remaining = Absent /\ r.retry_after = Absent
        \/ r.status = 403 /\ r.remaining = 5 /\ r.retry_after # Absent
        \/ r.status = 503 /\ r.remaining = Absent
        \/ r.status = 429 /\ r.remaining = Absent /\ r.retry_after # Absent}

\* limiter of the session thread t is calling through
LimiterOf(t) == session_limiter[calls[t].session]

InitSessions ==
    /\ adaptive \in BOOLEAN
    /\ limiters = <<>>
    /\ session_limiter = <<>>
    /\ calls = [t \in Callers |-> NoCall]
    /\ now = 0
    /\ sends = 0
    /\ interval = InitialInterval
    /\ next_ts = 0
    /\ lock = NoThread
    /\ pc = [t \in Callers |-> "idle"]
    /\ attempt = [t \in Callers |-> 0]
    /\ sleep_left = [t \in Callers |-> 0]
    /\ tmp = [t \in Callers |-> 0]
    /\ resp = [t \in Callers |-> NoResp]
    /\ stat = [t \in Callers |-> NoStat]
    /\ slotEnd = 0
    /\ quotaZeroUntil = 0
    /\ WaveIdle
    /\ SecretsIdle
    /\ CacheIdle

\* make_rate_limited_session: a new session, with a new limiter if adaptive
MakeRateLimitedSession ==
    /\ Len(session_limiter) < MaxSessions
    /\ \A t \in Callers : calls[t].pc \in {"idle", "returned", "raised"}
    /\ IF adaptive
       THEN /\ limiters' = Append(limiters, [interval |-> InitialInterval,
                                             next_ts |-> now])
            /\ session_limiter' = Append(session_limiter, NewLimiter)
       ELSE /\ limiters' = limiters
            /\ session_limiter' = Append(session_limiter, NoLimiter)
    /\ UNCHANGED <<adaptive, calls, now, sends, limiterLocals, waveVars, secretVars, cacheVars>>

\* the clock advances
SessionTick ==
    /\ now < MaxTime
    /\ now' = now + 1
    /\ calls' = [t \in Callers |->
                    [calls[t] EXCEPT !.sleep_left = Max(0, @ - 1)]]
    /\ UNCHANGED <<adaptive, limiters, session_limiter, sends, limiterLocals,
                   waveVars, secretVars, cacheVars>>

\* thread t enters request_with_rate_limit(session, ..., min_delay_sec = d)
SessionCall(t) ==
    /\ calls[t].pc \in {"idle", "returned", "raised"}
    /\ sends < MaxSends
    /\ \E s \in 1 .. Len(session_limiter), d \in {-1, 0, DefaultDelaySec} :
           /\ d = DefaultDelaySec \/ session_limiter[s] = NoLimiter
           /\ calls' = [calls EXCEPT ![t] = [NoCall EXCEPT !.session = s, !.min_delay = d,
                                                        !.pc = "loop"]]
    /\ UNCHANGED <<adaptive, limiters, session_limiter, now, sends, limiterLocals,
                   waveVars, secretVars, cacheVars>>

\* top of the loop: attempt += 1, then limiter.wait_turn() or the fixed delay
SessionPace(t) ==
    /\ calls[t].pc \in {"loop", "backoff", "hard_sleep"}
    /\ calls[t].sleep_left = 0
    /\ LET c == LimiterOf(t) IN
       IF c # NoLimiter
       THEN /\ limiters' = [limiters EXCEPT
                               ![c].next_ts = Max(now, @) + limiters[c].interval]
            /\ calls' = [calls EXCEPT ![t].attempt = @ + 1, ![t].pc = "pace",
                             ![t].resp = NoResp,
                             ![t].sleep_left = Max(0, limiters[c].next_ts - now)]
       ELSE /\ limiters' = limiters
            /\ calls' = [calls EXCEPT ![t].attempt = @ + 1, ![t].pc = "pace",
                             ![t].resp = NoResp,
                             ![t].sleep_left = FixedDelay(calls[t].min_delay)]
    /\ UNCHANGED <<adaptive, session_limiter, now, sends, limiterLocals, waveVars,
                   secretVars, cacheVars>>

\* the pre-request sleep of t is over and session.request may be called
SessionCanSend(t) ==
    /\ calls[t].pc = "pace"
    /\ calls[t].sleep_left = 0
    /\ sends < MaxSends

\* session.request raises RequestException: back off, or re-raise
SessionTransportError(t) ==
    /\ SessionCanSend(t)
    /\ sends' = sends + 1
    /\ calls' = IF TransportAttemptsExhausted(calls[t].attempt)
                THEN [calls EXCEPT ![t].pc = "raised"]
                ELSE [calls EXCEPT ![t].pc = "backoff",
                                   ![t].sleep_left = BackoffSleep(calls[t].attempt)]
    /\ UNCHANGED <<adaptive, limiters, session_limiter, now, limiterLocals, waveVars,
                   secretVars, cacheVars>>

\* sleep_reset is not None: bump the limiter if there is one, sleep, continue
SessionHardLimit(t) ==
    /\ SessionCanSend(t)
    /\ sends' = sends + 1
    /\ \E r \in SessionResponses :
        /\ ComputeRateLimitSleep(r, WallClock) # None
        /\ calls' = [calls EXCEPT ![t].pc = "hard_sleep", ![t].resp = r,
                        ![t].sleep_left = ComputeRateLimitSleep(r, WallClock)]
    /\ LET c == LimiterOf(t) IN
       limiters' = IF c # NoLimiter
                   THEN [limiters EXCEPT ![c].interval = BumpInterval(@)]
                   ELSE limiters
    /\ UNCHANGED <<adaptive, session_limiter, now, limiterLocals, waveVars, secretVars, cacheVars>>

\* 429/5xx: return the response when the attempts are used up, else back off
SessionTransient(t) ==
    /\ SessionCanSend(t)
    /\ sends' = sends + 1
    /\ \E r \in SessionResponses :
        /\ IsTransient(r)
        /\ calls' = IF TransientAttemptsExhausted(calls[t].attempt)
                    THEN [calls EXCEPT ![t].pc = "returned", ![t].resp = r]
                    ELSE [calls EXCEPT ![t].pc = "backoff", ![t].resp = r,
                                       ![t].sleep_left = BackoffSleep(calls[t].attempt)]
    /\ UNCHANGED <<adaptive, limiters, session_limiter, now, limiterLocals, waveVars,
                   secretVars, cacheVars>>

\* any other response: limiter.adjust_from_response if there is a limiter
\* (Retry-After branch, quota branch, or nothing), then return resp
SessionAdjustReturn(t) ==
    /\ SessionCanSend(t)
    /\ sends' = sends + 1
    /\ \E r \in SessionResponses :
        /\ ReachesAdjust(r)
        /\ LET c == LimiterOf(t) IN
           IF c # NoLimiter /\ RetryAfterApplies(r)
           THEN /\ limiters' = [limiters EXCEPT
                                   ![c].next_ts = now + r.retry_after,
                                   ![c].interval = RetryAfterInterval(@)]
                /\ calls' = [calls EXCEPT ![t].pc = "ra_sleep", ![t].resp = r,
                                          ![t].sleep_left = r.retry_after]
           ELSE /\ limiters' =
                     IF c # NoLimiter /\ QuotaApplies(r)
                     THEN [limiters EXCEPT ![c].interval =
                              EmaBlend(@, TargetInterval(r.remaining,
                                                         ResetIn(r, WallClock)))]
                     ELSE limiters
                /\ calls' = [calls EXCEPT ![t].pc = "returned", ![t].resp = r]
    /\ UNCHANGED <<adaptive, session_limiter, now, limiterLocals, waveVars, secretVars, cacheVars>>

\* the Retry-After sleep inside adjust_from_response is over: return resp
SessionRetryAfterOver(t) ==
    /\ calls[t].pc = "ra_sleep"
    /\ calls[t].sleep_left = 0
    /\ calls' = [calls EXCEPT ![t].pc = "returned"]
    /\ UNCHANGED <<adaptive, limiters, session_limiter, now, sends, limiterLocals,
                   waveVars, secretVars, cacheVars>>

NextSessions ==
    \/ MakeRateLimitedSession
    \/ SessionTick
    \/ \E t \in Callers : SessionCall(t)
    \/ \E t \in Callers : SessionPace(t)
    \/ \E t \in Callers : SessionTransportError(t)
    \/ \E t \in Callers : SessionHardLimit(t)
    \/ \E t \in Callers : SessionTransient(t)
    \/ \E t \in Callers : SessionAdjustReturn(t)
    \/ \E t \in Callers : SessionRetryAfterOver(t)

SpecSessions == InitSessions /\ [][NextSessions]_vars

\* the steps of thread t's call
Paces(t) == calls[t].pc \in {"loop", "backoff", "hard_sleep"} /\ calls'[t].pc = "pace"
Sends(t) == calls[t].pc = "pace" /\ calls'[t].pc # "pace"

\* C22: every session built with adaptive throttling on has a limiter no other
\* session has, and keeps it; a call made through a session reserves its turn
\* on that session's limiter; and whatever is done to a limiter (reservation,
\* feedback update, bump) is done to the limiter of the session the acting
\* call goes through, every other limiter keeping its interval and next_ts.
C22_OwnController ==
    [][ /\ \A s1, s2 \in 1 .. Len(session_limiter') :
              s1 # s2 /\ session_limiter'[s1] # NoLimiter
                  => session_limiter'[s1] # session_limiter'[s2]
        /\ \A s \in 1 .. Len(session_limiter) :
              session_limiter'[s] = session_limiter[s]
        /\ adaptive => \A s \in 1 .. Len(session_limiter') :
                          session_limiter'[s] \in 1 .. Len(limiters')
        /\ \A c \in 1 .. Len(limiters) :
              limiters'[c] # limiters[c]
                  => \E t \in Callers : calls'[t] # calls[t] /\ LimiterOf(t) = c
        /\ \A t \in Callers :
              Paces(t) /\ LimiterOf(t) # NoLimiter
                  => LET l == limiters[LimiterOf(t)] IN
                     /\ limiters'[LimiterOf(t)].next_ts = Max(now, l.next_ts) + l.interval
                     /\ calls'[t].sleep_left = Max(0, l.next_ts - now)
      ]_vars

\* two sessions with two limiters; the first limiter has been slowed down by
\* a call through the first session, the second has not, and a call through
\* the second session has just reserved its turn on the second limiter
C22_Witness ==
    /\ Len(session_limiter) = 2
    /\ session_limiter[1] = 1 /\ session_limiter[2] = 2
    /\ limiters[1].interval > InitialInterval
    /\ limiters[2].interval = InitialInterval
    /\ calls[1].session = 2 /\ calls[1].pc = "pace"
    /\ limiters[2].next_ts > now

\* what request_with_rate_limit does with a response r met on attempt a
Classify(r, a) ==
    IF ComputeRateLimitSleep(r, WallClock) # None THEN "hard_sleep"
    ELSE IF r.status \in TransientStatuses /\ a < MaxAttempts THEN "backoff"
    ELSE "returned"

\* "ra_sleep" is the wait inside adjust_from_response, just before `return resp`
Outcome(p) == IF p = "ra_sleep" THEN "returned" ELSE p

\* C30: a call through a session without a limiter sleeps min_delay_sec before
\* every send (nothing when min_delay_sec <= 0) and changes no limiter; and
\* every call, with or without a limiter, classifies what its send met in the
\* same way: a transport error is re-raised on the last attempt and backed off
\* otherwise, a response is slept out as a hard limit, backed off or returned
\* according to the response and the attempt number alone, with the same sleeps.
C30_FixedDelayWithoutLimiter ==
    [][\A t \in Callers :
        /\ Paces(t) /\ LimiterOf(t) = NoLimiter
              => /\ calls'[t].sleep_left =
                        (IF calls[t].min_delay > 0 THEN calls[t].min_delay ELSE 0)
                 /\ calls'[t].attempt = calls[t].attempt + 1
        /\ calls[t].session # 0 /\ LimiterOf(t) = NoLimiter /\ calls'[t] # calls[t]
              => /\ limiters' = limiters
                 /\ calls'[t].pc # "ra_sleep"
        /\ Sends(t)
              => LET r == calls'[t].resp
                     a == calls[t].attempt
                 IN  IF r = NoResp
                     THEN /\ calls'[t].pc = (IF a >= MaxAttempts THEN "raised" ELSE "backoff")
                          /\ calls'[t].pc = "backoff" => calls'[t].sleep_left = Pow(BackoffBase, a - 1)
                     ELSE /\ Outcome(calls'[t].pc) = Classify(r, a)
                          /\ calls'[t].pc = "backoff"
                                => calls'[t].sleep_left = Pow(BackoffBase, a - 1)
                          /\ calls'[t].pc = "hard_sleep"
                                => calls'[t].sleep_left = ComputeRateLimitSleep(r, WallClock)
      ]_vars

\* a call through a session without a limiter is about to send for the second
\* time, after a backed-off failure, and sleeps the fixed delay once more
C30_Witness ==
    /\ adaptive = FALSE
    /\ calls[1].session # 0
    /\ calls[1].attempt = 2
    /\ calls[1].pc = "pace"
    /\ calls[1].min_delay = DefaultDelaySec
    /\ calls[1].sleep_left = DefaultDelaySec


\* ------------------------------------------------ TTLCache (graphql.py)
\* The cache directory holds one JSON file per key path.  time.time() is
\* WallClock.  A query stands for a query text with its variables.

MaxCacheOps == 4        \* TTLCache.get and TTLCache.set calls in one behaviour
MaxCacheTime == 3       \* the clock of the cache stops advancing here
CacheTtl    == 2        \* a positive GITHUB_GRAPHQL_CACHE_TTL

Ttls     == {0, CacheTtl}
Queries  == {1, 2}
Tokens   == {1, 2}
EmptyData == 0          \* {}
DataVals == {EmptyData, 1}
NoData   == -1          \* None

\* sha256(token)[:16]: the fingerprint is not the token; the tokens in use
\* have different fingerprints
TokenFp(tok) == 100 + tok

\* _key_path: the digest of the stable dump of {q, v, t: fingerprint}
KeyPath(q, tok) == <<q, TokenFp(tok)>>

KeyPaths == {KeyPath(q, tok) : q \in Queries, tok \in Tokens}

\* a key path without a file, and a file json.load cannot read
NoFile     == [expires |-> -1, data |-> NoData]
Unreadable == [expires |-> -2, data |-> NoData]

NoGet == [query |-> 0, token |-> 0, result |-> NoData, op |-> 0]
NoPost == [pc |-> "idle", query |-> 0, result |-> NoData, hit |-> FALSE, requests |-> 0]

\* mutant: an entry is served whatever its _expires
CacheLookupNoExpiry(q, tok) ==
    IF ttl_seconds <= 0 THEN NoData
    ELSE files[KeyPath(q, tok)].data
\* TTLCache.get(query, variables, token) at the current time
CacheLookup(q, tok) ==
    IF ttl_seconds <= 0 THEN NoData
    ELSE LET p == files[KeyPath(q, tok)] IN
         IF p = NoFile THEN NoData
         ELSE IF p = Unreadable THEN NoData
         ELSE IF WallClock > p.expires THEN NoData
         ELSE p.data

\* TTLCache.set(query, variables, token, d) when the file is written
CacheWrite(q, tok, d) ==
    IF ttl_seconds <= 0 THEN files
    ELSE [files EXCEPT ![KeyPath(q, tok)] = [expires |-> WallClock + ttl_seconds, data |-> d]]

\* what that write adds to the history
StoredAfterWrite(q, tok, d) ==
    IF ttl_seconds <= 0 THEN stored
    ELSE [stored EXCEPT ![<<q, tok>>] = [expires |-> WallClock + ttl_seconds, data |-> d]]

InitCache ==
    /\ ttl_seconds \in Ttls
    /\ files = [k \in KeyPaths |-> NoFile]
    /\ stored = [k \in Queries \X Tokens |-> NoFile]
    /\ got = NoGet
    /\ post = NoPost
    /\ cache_ops = 0
    /\ now = 0
    /\ sends = 0
    /\ interval = InitialInterval
    /\ next_ts = 0
    /\ lock = NoThread
    /\ pc = [t \in Threads |-> "idle"]
    /\ attempt = [t \in Threads |-> 0]
    /\ sleep_left = [t \in Threads |-> 0]
    /\ tmp = [t \in Threads |-> 0]
    /\ resp = [t \in Threads |-> NoResp]
    /\ stat = [t \in Threads |-> NoStat]
    /\ slotEnd = 0
    /\ quotaZeroUntil = 0
    /\ WaveIdle
    /\ SecretsIdle
    /\ SessionsIdle

\* the clock advances
CacheTick ==
    /\ now < MaxCacheTime
    /\ now' = now + 1
    /\ UNCHANGED <<cacheVars, sends, limiterLocals, waveVars, secretVars, sessionVars>>

\* TTLCache(directory, ttl): another cache object over the same directory
NewTTLCache ==
    /\ \E ttl \in Ttls : ttl # ttl_seconds /\ ttl_seconds' = ttl
    /\ UNCHANGED <<files, stored, got, post, cache_ops, now, sends, limiterLocals,
                   waveVars, secretVars, sessionVars>>

\* TTLCache.get
CacheGet ==
    /\ cache_ops < MaxCacheOps
    /\ cache_ops' = cache_ops + 1
    /\ \E q \in Queries, tok \in Tokens :
          got' = [query |-> q, token |-> tok, result |-> CacheLookup(q, tok),
                  op |-> cache_ops + 1]
    /\ UNCHANGED <<ttl_seconds, files, stored, post, now, sends, limiterLocals,
                   waveVars, secretVars, sessionVars>>

\* TTLCache.set, the file is written
CacheSet ==
    /\ cache_ops < MaxCacheOps
    /\ cache_ops' = cache_ops + 1
    /\ \E q \in Queries, tok \in Tokens, d \in DataVals :
          /\ files' = CacheWrite(q, tok, d)
          /\ stored' = StoredAfterWrite(q, tok, d)
    /\ UNCHANGED <<ttl_seconds, got, post, now, sends, limiterLocals,
                   waveVars, secretVars, sessionVars>>

\* TTLCache.set, p.open or json.dump raises and the exception is swallowed:
\* the old file is left as it was (open failed) or is cut short (dump failed)
CacheSetFails ==
    /\ cache_ops < MaxCacheOps
    /\ ttl_seconds > 0
    /\ cache_ops' = cache_ops + 1
    /\ \E q \in Queries, tok \in Tokens :
          \/ UNCHANGED <<files, stored>>
          \/ /\ files' = [files EXCEPT ![KeyPath(q, tok)] = Unreadable]
             /\ stored' = [stored EXCEPT ![<<q, tok>>] = NoFile]
    /\ UNCHANGED <<ttl_seconds, got, post, now, sends, limiterLocals,
                   waveVars, secretVars, sessionVars>>

NextCache ==
    \/ CacheTick
    \/ NewTTLCache
    \/ CacheGet
    \/ CacheSet
    \/ CacheSetFails

SpecCache == InitCache /\ [][NextCache]_vars

\* this step is a TTLCache.get / a TTLCache.set
GetStep == got'.op = cache_ops' /\ cache_ops' # cache_ops
SetStep == got' = got /\ cache_ops' # cache_ops

\* C33: TTLCache.get(q, v, token) returns what the latest set that stored
\* something for the same (q, v, token) stored, as long as the time is not
\* past that entry's expiry (time of the set + ttl_seconds of the set), and
\* None once it is, or when nothing is stored for (q, v, token), whatever is
\* stored under another token or query; with ttl_seconds <= 0 set leaves the
\* directory as it is and get returns None.
C33_TtlCacheGet ==
    [][/\ GetStep =>
            LET st == stored[<<got'.query, got'.token>>] IN
            /\ (ttl_seconds > 0 /\ st # NoFile /\ WallClock <= st.expires)
                   => got'.result = st.data
            /\ (st = NoFile \/ WallClock > st.expires) => got'.result = NoData
            /\ ttl_seconds <= 0 => got'.result = NoData
       /\ (SetStep /\ ttl_seconds <= 0) => files' = files]_vars

\* a get has returned {} stored under its own token at the very moment of
\* expiry, while other data is stored for the same query under the other token
C33_Witness ==
    /\ got.result = EmptyData
    /\ stored[<<got.query, got.token>>].expires = WallClock
    /\ \E tok \in Tokens :
          /\ tok # got.token
          /\ stored[<<got.query, tok>>].data = 1
          /\ stored[<<got.query, tok>>].expires >= WallClock

\* -------------------------------------------- GitHubGraphQLClient._post
\* One client: its token, the session make_rate_limited_session built for it
\* (session 1, with limiter 1 when adaptive throttling is on) and its cache.
\* The caller is thread 1; the request made on a miss is the call of
\* request_with_rate_limit modelled by the Session actions above.

ClientToken   == 1
ClientSession == 1
Client        == 1      \* the thread calling _post

\* mutant: the cached value is tested for truth, so a cached {} is a miss
IsCacheHitTruthy(cached) == cached \notin {NoData, EmptyData}
\* `if cached is not None`
IsCacheHit(cached) == cached # NoData

\* core = data.get("data") or {}
CoreOf(d) == IF d = NoData THEN EmptyData ELSE d

InitGraphQL ==
    /\ ttl_seconds \in Ttls
    /\ files = [k \in KeyPaths |-> NoFile]
    /\ stored = [k \in Queries \X Tokens |-> NoFile]
    /\ got = NoGet
    /\ post = NoPost
    /\ cache_ops = 0
    /\ adaptive \in BOOLEAN
    /\ limiters = IF adaptive
                  THEN <<[interval |-> InitialInterval, next_ts |-> 0]>>
                  ELSE <<>>
    /\ session_limiter = IF adaptive THEN <<1>> ELSE <<NoLimiter>>
    /\ calls = [t \in Callers |-> NoCall]
    /\ now = 0
    /\ sends = 0
    /\ interval = InitialInterval
    /\ next_ts = 0
    /\ lock = NoThread
    /\ pc = [t \in Threads |-> "idle"]
    /\ attempt = [t \in Threads |-> 0]
    /\ sleep_left = [t \in Threads |-> 0]
    /\ tmp = [t \in Threads |-> 0]
    /\ resp = [t \in Threads |-> NoResp]
    /\ stat = [t \in Threads |-> NoStat]
    /\ slotEnd = 0
    /\ quotaZeroUntil = 0
    /\ WaveIdle
    /\ SecretsIdle

\* _post(query, variables): cache.get gives a value, which is returned
GqlPostHit ==
    /\ post.pc \in {"idle", "returned", "raised"}
    /\ cache_ops < MaxCacheOps
    /\ \E q \in Queries :
          LET cached == CacheLookup(q, ClientToken) IN
          /\ IsCacheHit(cached)
          /\ got' = [query |-> q, token |-> ClientToken, result |-> cached,
                     op |-> cache_ops + 1]
          /\ post' = [pc |-> "returned", query |-> q, result |-> cached, hit |-> TRUE,
                      requests |-> 0]
    /\ cache_ops' = cache_ops + 1
    /\ UNCHANGED <<ttl_seconds, files, stored, sessionVars, now, sends, limiterLocals,
                   waveVars, secretVars>>

\* _post(query, variables): cache.get gives None and request_with_rate_limit
\* is called, with the default min_delay_sec
GqlPostMiss ==
    /\ post.pc \in {"idle", "returned", "raised"}
    /\ cache_ops + 1 < MaxCacheOps
    /\ sends < MaxSends
    /\ \E q \in Queries :
          LET cached == CacheLookup(q, ClientToken) IN
          /\ ~IsCacheHit(cached)
          /\ got' = [query |-> q, token |-> ClientToken, result |-> cached,
                     op |-> cache_ops + 1]
          /\ post' = [pc |-> "request", query |-> q, result |-> NoData, hit |-> FALSE,
                      requests |-> 1]
    /\ calls' = [calls EXCEPT ![Client] = [NoCall EXCEPT !.session = ClientSession,
                                                         !.min_delay = DefaultDelaySec,
                                                         !.pc = "loop"]]
    /\ cache_ops' = cache_ops + 1
    /\ UNCHANGED <<ttl_seconds, files, stored, adaptive, limiters, session_limiter, now,
                   sends, limiterLocals, waveVars, secretVars>>

\* request_with_rate_limit raised, or returned a response with status >= 400
\* and resp.raise_for_status() raises
GqlPostRaises ==
    /\ post.pc = "request"
    /\ \/ calls[Client].pc = "raised"
       \/ calls[Client].pc = "returned" /\ calls[Client].resp.status >= 400
    /\ post' = [post EXCEPT !.pc = "raised"]
    /\ UNCHANGED <<ttl_seconds, files, stored, got, cache_ops, sessionVars, now, sends,
                   limiterLocals, waveVars, secretVars>>

\* the response has status < 400: core = data.get("data") or {},
\* cache.set(query, variables, token, core), return core
GqlPostStores ==
    /\ post.pc = "request"
    /\ calls[Client].pc = "returned" /\ calls[Client].resp.status < 400
    /\ \E d \in DataVals \cup {NoData} :
          /\ files' = CacheWrite(post.query, ClientToken, CoreOf(d))
          /\ stored' = StoredAfterWrite(post.query, ClientToken, CoreOf(d))
          /\ post' = [post EXCEPT !.pc = "returned", !.result = CoreOf(d)]
    /\ cache_ops' = cache_ops + 1
    /\ UNCHANGED <<ttl_seconds, got, sessionVars, now, sends, limiterLocals, waveVars,
                   secretVars>>

\* the same, but the write of cache.set fails and the exception is swallowed
GqlPostStoreFails ==
    /\ post.pc = "request"
    /\ calls[Client].pc = "returned" /\ calls[Client].resp.status < 400
    /\ ttl_seconds > 0
    /\ \E d \in DataVals \cup {NoData} :
          post' = [post EXCEPT !.pc = "returned", !.result = CoreOf(d)]
    /\ \/ UNCHANGED <<files, stored>>
       \/ /\ files' = [files EXCEPT ![KeyPath(post.query, ClientToken)] = Unreadable]
          /\ stored' = [stored EXCEPT ![<<post.query, ClientToken>>] = NoFile]
    /\ cache_ops' = cache_ops + 1
    /\ UNCHANGED <<ttl_seconds, got, sessionVars, now, sends, limiterLocals, waveVars,
                   secretVars>>

NextGraphQL ==
    \/ GqlPostHit
    \/ GqlPostMiss
    \/ GqlPostRaises
    \/ GqlPostStores
    \/ GqlPostStoreFails
    \/ SessionTick
    \/ SessionPace(Client)
    \/ SessionTransportError(Client)
    \/ SessionHardLimit(Client)
    \/ SessionTransient(Client)
    \/ SessionAdjustReturn(Client)
    \/ SessionRetryAfterOver(Client)

SpecGraphQL == InitGraphQL /\ [][NextGraphQL]_vars

\* C34: a call of _post whose query has an entry stored under the client's
\* token that has not expired is a hit: it returns the stored data, reserves
\* nothing on the limiter and sends nothing; any other call is a miss and
\* makes one call of request_with_rate_limit, outside of which nothing is
\* sent; when that call raises or returns a status >= 400, _post raises and
\* the cache is left as it is; otherwise _post returns the response's data
\* and, the write succeeding, the cache holds it under the client's token
\* with expiry now + ttl_seconds, so that an identical call before then is a hit.
C34_PostHitOrOneRequest ==
    [][/\ GetStep =>
            LET st == stored[<<got'.query, ClientToken>>]
                live == ttl_seconds > 0 /\ st # NoFile /\ WallClock < st.expires
            IN  /\ got'.token = ClientToken
                /\ post'.query = got'.query
                /\ live => post'.hit
                /\ post'.hit =>
                      /\ st # NoFile /\ WallClock <= st.expires
                      /\ post'.pc = "returned" /\ post'.result = st.data
                      /\ post'.requests = 0
                      /\ sends' = sends /\ limiters' = limiters /\ calls' = calls
                      /\ files' = files
                /\ ~post'.hit =>
                      /\ post'.pc = "request" /\ post'.requests = 1
                      /\ calls'[Client].pc = "loop" /\ calls'[Client].attempt = 0
                      /\ sends' = sends /\ files' = files
       /\ sends' # sends => post.pc = "request" /\ post' = post
       /\ (post.pc = "request" /\ post'.pc # "request") =>
            LET c == calls[Client]
                failed == c.pc = "raised" \/ (c.pc = "returned" /\ c.resp.status >= 400)
                k == KeyPath(post.query, ClientToken)
            IN  /\ c.pc \in {"raised", "returned"}
                /\ post.requests = 1 /\ calls' = calls /\ sends' = sends
                /\ failed => /\ post'.pc = "raised"
                             /\ files' = files /\ stored' = stored
                /\ ~failed =>
                      /\ post'.pc = "returned" /\ post'.result \in DataVals
                      /\ ttl_seconds <= 0 => files' = files
                      /\ (files' # files /\ files'[k] # Unreadable) =>
                            /\ files' = [files EXCEPT ![k] =
                                            [expires |-> WallClock + ttl_seconds,
                                             data |-> post'.result]]
                            /\ stored'[<<post.query, ClientToken>>] = files'[k]
      ]_vars

\* an identical call is served from the cache while the entry is live: the
\* first call sent one request and stored {}, the second is a hit returning {}
\* with nothing more sent and the limiter's reservation as the first call left it
C34_Witness ==
    /\ adaptive = TRUE
    /\ post.hit /\ post.pc = "returned" /\ post.result = EmptyData
    /\ cache_ops = 3 /\ got.op = 3
    /\ sends = 1
    /\ limiters[1].next_ts = InitialInterval
    /\ stored[<<post.query, ClientToken>>].expires > WallClock

====
